---- MODULE Spec2Model ----
(***************************************************************************)
(* The rent-share program: one rent agreement account, the wallets that    *)
(* pay into it, and the three instructions the program processes           *)
(* (InitializeRentContract, PayRent, TerminateEarly).                      *)
(*                                                                         *)
(* The host invokes the program with an instruction and a list of          *)
(* accounts (Invoke), the program runs the matching handler to the end     *)
(* (ProcessInitializeRentContract, ProcessPayRent, ProcessTerminateEarly)  *)
(* and the host hands the result back to the caller (Return).              *)
(***************************************************************************)
EXTENDS Integers, Sequences, FiniteSets, TLC

VARIABLES
    rent_data,        \* the RentShareAccount held in the agreement account's data
    data_len,         \* the size in bytes of the agreement account's data
    rent_exempt,      \* the rent sysvar's answer for the agreement account
    overflow_checks,  \* the build profile: does integer overflow panic or wrap
    lamports,         \* the balance of every wallet
    pc,               \* "idle", "pending" (a call is being processed) or "done"
    call,             \* the instruction and the accounts of the current call
    result,           \* the ProgramResult of the current call
    pay_seq,          \* history: PayRent calls of the run that started at Initialize
    was_active,       \* history: the record was Active in an earlier state
    input,            \* the instruction data handed to RentShareInstruction::unpack
    unpacked          \* what unpack made of it

vars == <<rent_data, data_len, rent_exempt, overflow_checks, lamports, pc, call,
          result, pay_seq, was_active, input, unpacked>>

-----------------------------------------------------------------------------
(* Bounds of the model *)

\* the largest duration an Initialize instruction carries
MaxDuration == 2

\* the longest payload of an instruction buffer, after its tag
MaxPayload == 90

\* the balance every wallet starts with
InitLamports == 4

-----------------------------------------------------------------------------
(* u64: four little-endian limbs of 16 bits *)

\* a limb holds two bytes
LimbBase == 256 * 256

U64(n) == <<n % LimbBase, (n \div LimbBase) % LimbBase, 0, 0>>

U64_MAX == <<LimbBase - 1, LimbBase - 1, LimbBase - 1, LimbBase - 1>>

U64Lt(a, b) ==
    \E i \in 1..4 : a[i] < b[i] /\ \A j \in (i + 1)..4 : a[j] = b[j]

U64Le(a, b) == a = b \/ U64Lt(a, b)

\* the number a small u64 stands for (its two high limbs are zero)
U64ToNat(x) == x[1] + LimbBase * x[2]

\* x - 1 modulo 2^64
wrapping_sub_one(x) ==
    IF x[1] > 0 THEN <<x[1] - 1, x[2], x[3], x[4]>>
    ELSE IF x[2] > 0 THEN <<LimbBase - 1, x[2] - 1, x[3], x[4]>>
    ELSE IF x[3] > 0 THEN <<LimbBase - 1, LimbBase - 1, x[3] - 1, x[4]>>
    ELSE IF x[4] > 0 THEN <<LimbBase - 1, LimbBase - 1, LimbBase - 1, x[4] - 1>>
    ELSE U64_MAX

-----------------------------------------------------------------------------
(* state.rs *)

Uninitialized == 0
Active == 1
Completed == 2
Terminated == 3

\* the all-zero public key, which is also the system program's id
DefaultPubkey == "11111111111111111111111111111111"

RentShareAccount(status, payee_pubkey, payer_pubkey, deposit, rent_amount, duration, duration_unit, remaining_payments) ==
    [status |-> status, payee_pubkey |-> payee_pubkey, payer_pubkey |-> payer_pubkey,
     deposit |-> deposit, rent_amount |-> rent_amount, duration |-> duration,
     duration_unit |-> duration_unit, remaining_payments |-> remaining_payments]

\* the encoded size of a RentShareAccount: u8, 2 x Pubkey, 3 x u64, u8, u64
RentShareAccountLen == 1 + 32 + 32 + 8 + 8 + 8 + 1 + 8

\* a freshly created agreement account: every byte zero
ZeroedAccount ==
    RentShareAccount(Uninitialized, DefaultPubkey, DefaultPubkey, U64(0), U64(0), U64(0), 0, U64(0))

\* a mutant: only an Active record counts as initialized
is_initialized_active_only(rd) == rd.status = Active

is_initialized(rd) == rd.status # Uninitialized

\* a mutant: no record counts as complete
is_complete_never(rd) == FALSE

is_complete(rd) == rd.status = Completed

\* a mutant: no record counts as terminated
is_terminated_never(rd) == FALSE

is_terminated(rd) == rd.status = Terminated

-----------------------------------------------------------------------------
(* error.rs *)

RentAlreadyPaidInFull == 100
RentPaymentAmountMismatch == 101
RentAgreementTerminated == 102

Ok == [ok |-> TRUE, error |-> "", code |-> 0]

Err(name) == [ok |-> FALSE, error |-> name, code |-> 0]

\* From<RentShareError> for ProgramError
Custom(e) == [ok |-> FALSE, error |-> "Custom", code |-> e]

\* the program aborted: the host fails the call and discards its effects
Panicked == [ok |-> FALSE, error |-> "panic", code |-> 0]

\* the error the system program's transfer came back with
TransferError == [ok |-> FALSE, error |-> "TransferFailed", code |-> 0]

NoResult == [ok |-> FALSE, error |-> "none", code |-> 0]

-----------------------------------------------------------------------------
(* The host: accounts, the program's id, the calls a client can make *)

program_id == "rent_share_program"

SystemProgramId == DefaultPubkey

AgreementKey == "agreement"

SysvarRentKey == "SysvarRent111111111111111111111111111111111"

Wallets == {"w1", "w2", "w3"}

\* the program that owns an account: the agreement account was created for
\* this program, a wallet belongs to the system program
owner(key) ==
    IF key = AgreementKey THEN program_id
    ELSE IF key = SysvarRentKey THEN "Sysvar1111111111111111111111111111111111111"
    ELSE SystemProgramId

AccountInfo(key, is_signer) == [key |-> key, is_signer |-> is_signer]

\* instruction.rs: the three variants of RentShareInstruction
InitializeRentContract(payee_pubkey, payer_pubkey, deposit, rent_amount, duration, duration_unit) ==
    [variant |-> "InitializeRentContract", payee_pubkey |-> payee_pubkey,
     payer_pubkey |-> payer_pubkey, deposit |-> deposit, rent_amount |-> rent_amount,
     duration |-> duration, duration_unit |-> duration_unit]

PayRent(rent_amount) == [variant |-> "PayRent", rent_amount |-> rent_amount]

TerminateEarly == [variant |-> "TerminateEarly"]

-----------------------------------------------------------------------------
(* instruction.rs: RentShareInstruction::unpack *)

\* u64::from_le_bytes on eight bytes
from_le_bytes(b) ==
    <<b[1] + 256 * b[2], b[3] + 256 * b[4], b[5] + 256 * b[6], b[7] + 256 * b[8]>>

\* unpack_u64: input.get(start..8 + start) is None when the buffer is shorter
unpack_u64(bytes, start) ==
    IF 8 + start > Len(bytes)
    THEN [ok |-> FALSE, value |-> U64(0)]
    ELSE [ok |-> TRUE, value |-> from_le_bytes(SubSeq(bytes, start + 1, start + 8))]

Unpacked(res, instruction) == [result |-> res, instruction |-> instruction]

NoInstruction == [variant |-> "none"]

NotUnpacked == Unpacked(NoResult, NoInstruction)

InvalidInstructionData == Unpacked(Err("InvalidInstructionData"), NoInstruction)

\* an index or a slice past the end of the buffer: the program aborts
UnpackPanicked == Unpacked(Panicked, NoInstruction)

\* tag 0: the two slices &rest[..32] and &rest[32..64], three unpack_u64 and
\* the index rest[88], in this order
unpack_initialize(rest) ==
    IF Len(rest) < 32 THEN UnpackPanicked
    ELSE IF Len(rest) < 64 THEN UnpackPanicked
    ELSE LET deposit == unpack_u64(rest, 64)
             rent_amount == unpack_u64(rest, 72)
             duration == unpack_u64(rest, 80)
         IN IF ~deposit.ok THEN InvalidInstructionData
            ELSE IF ~rent_amount.ok THEN InvalidInstructionData
            ELSE IF ~duration.ok THEN InvalidInstructionData
            ELSE IF Len(rest) <= 88 THEN UnpackPanicked
            ELSE Unpacked(Ok, InitializeRentContract(SubSeq(rest, 1, 32),
                                                     SubSeq(rest, 33, 64),
                                                     deposit.value, rent_amount.value,
                                                     duration.value, rest[89]))

unpack_pay_rent(rest) ==
    LET rent_amount == unpack_u64(rest, 0)
    IN IF ~rent_amount.ok THEN InvalidInstructionData
       ELSE Unpacked(Ok, PayRent(rent_amount.value))

unpack(bytes) ==
    IF Len(bytes) = 0 THEN InvalidInstructionData
    ELSE LET tag == Head(bytes)
             rest == Tail(bytes)
         IN IF tag = 0 THEN unpack_initialize(rest)
            ELSE IF tag = 1 THEN unpack_pay_rent(rest)
            ELSE IF tag = 2 THEN Unpacked(Ok, TerminateEarly)
            ELSE InvalidInstructionData

-----------------------------------------------------------------------------
(* processor.rs *)

\* what a handler leaves behind: its result, the agreement account's data and
\* the wallets' balances
Outcome(res, rd, lam) == [result |-> res, rent_data |-> rd, lamports |-> lam]

\* an early return: nothing was written, nothing was transferred
Fail(res) == Outcome(res, rent_data, lamports)

\* RentShareAccount::try_from_slice on the agreement account's data: borsh
\* fails unless the buffer holds exactly one encoded RentShareAccount
try_from_slice_is_err == data_len # RentShareAccountLen

\* Rent::from_account_info: the account must be the rent sysvar
rent_from_account_info_is_err(account) == account.key # SysvarRentKey

\* the balance AccountInfo::lamports() reads, as the u64 it is
account_lamports(account) ==
    IF account.key \in Wallets THEN U64(lamports[account.key]) ELSE U64(0)

\* system_instruction::transfer, carried out by the system program
transfer(from, to, amount) ==
    [k \in Wallets |->
        IF from = to THEN lamports[k]
        ELSE IF k = from THEN lamports[k] - U64ToNat(amount)
        ELSE IF k = to THEN lamports[k] + U64ToNat(amount)
        ELSE lamports[k]]

\* a mutant: the counter is left as it is
sub_assign_none(x) == [panic |-> FALSE, value |-> x]

\* rent_data.remaining_payments -= 1: a build with overflow checks panics at
\* zero, a build without them wraps
sub_assign_one(x) ==
    [panic |-> overflow_checks /\ x = U64(0), value |-> wrapping_sub_one(x)]

\* a mutant: the deposit and the rent amount change places, and the counter
\* starts from the rent amount
initialized_account_swapped(payee_pubkey, payer_pubkey, deposit, rent_amount, duration, duration_unit) ==
    RentShareAccount(Active, payee_pubkey, payer_pubkey, rent_amount, deposit,
                     duration, duration_unit, rent_amount)

\* the record initialize_rent_contract writes
initialized_account(payee_pubkey, payer_pubkey, deposit, rent_amount, duration, duration_unit) ==
    RentShareAccount(Active, payee_pubkey, payer_pubkey, deposit, rent_amount,
                     duration, duration_unit, duration)

initialize_rent_contract(accounts, pid, payee_pubkey, payer_pubkey, deposit, rent_amount, duration, duration_unit) ==
    IF Len(accounts) < 1 THEN Fail(Err("NotEnoughAccountKeys"))
    ELSE IF owner(accounts[1].key) # pid THEN Fail(Err("IncorrectProgramId"))
    ELSE IF Len(accounts) < 2 THEN Fail(Err("NotEnoughAccountKeys"))
    ELSE IF rent_from_account_info_is_err(accounts[2]) THEN Fail(Err("InvalidArgument"))
    ELSE IF ~rent_exempt THEN Fail(Err("AccountNotRentExempt"))
    ELSE IF try_from_slice_is_err THEN Fail(Err("InvalidAccountData"))
    ELSE IF is_initialized(rent_data) THEN Fail(Err("AccountAlreadyInitialized"))
    ELSE Outcome(Ok,
                 initialized_account(payee_pubkey, payer_pubkey, deposit, rent_amount,
                                     duration, duration_unit),
                 lamports)

\* a mutant: the agreement completes on any payment
status_after_payment_always(status, remaining_payments) == Completed

\* if rent_data.remaining_payments == 0 { rent_data.status = Completed }
status_after_payment(status, remaining_payments) ==
    IF remaining_payments = U64(0) THEN Completed ELSE status

\* a mutant: a payment shortens the agreement as well
paid_account_shortened(rd, remaining_payments) ==
    [rd EXCEPT !.remaining_payments = remaining_payments,
               !.duration = remaining_payments,
               !.status = status_after_payment(rd.status, remaining_payments)]

\* the record pay_rent writes after a payment
paid_account(rd, remaining_payments) ==
    [rd EXCEPT !.remaining_payments = remaining_payments,
               !.status = status_after_payment(rd.status, remaining_payments)]

\* a mutant: the record is written before the transfer is invoked
pay_rent_commit_write_first(payer_account, payee_account, rent_amount, transfer_ok) ==
    LET dec == sub_assign_one(rent_data.remaining_payments)
    IN IF dec.panic THEN Fail(Panicked)
       ELSE IF ~transfer_ok
            THEN Outcome(TransferError, paid_account(rent_data, dec.value), lamports)
       ELSE Outcome(Ok, paid_account(rent_data, dec.value),
                    transfer(payer_account.key, payee_account.key, rent_amount))

\* the tail of pay_rent, once every check has passed: the transfer, then the
\* decrement and the write
pay_rent_commit(payer_account, payee_account, rent_amount, transfer_ok) ==
    IF ~transfer_ok THEN Fail(TransferError)
    ELSE LET dec == sub_assign_one(rent_data.remaining_payments)
         IN IF dec.panic THEN Fail(Panicked)
            ELSE Outcome(Ok, paid_account(rent_data, dec.value),
                         transfer(payer_account.key, payee_account.key, rent_amount))

\* a mutant: the self-payment branch comes after the checks of the record
pay_rent_self_payment_last(accounts, pid, rent_amount, transfer_ok) ==
    IF Len(accounts) < 1 THEN Fail(Err("NotEnoughAccountKeys"))
    ELSE IF owner(accounts[1].key) # pid THEN Fail(Err("IncorrectProgramId"))
    ELSE IF Len(accounts) < 4 THEN Fail(Err("NotEnoughAccountKeys"))
    ELSE LET payee_account == accounts[2]
             payer_account == accounts[3]
         IN IF ~payer_account.is_signer THEN Fail(Err("MissingRequiredSignature"))
            ELSE IF U64Lt(account_lamports(payer_account), rent_amount)
                 THEN Fail(Err("InsufficientFunds"))
            ELSE IF try_from_slice_is_err THEN Fail(Err("InvalidAccountData"))
            ELSE IF ~is_initialized(rent_data) THEN Fail(Err("UninitializedAccount"))
            ELSE IF rent_data.payee_pubkey # payee_account.key
                 THEN Fail(Err("InvalidAccountData"))
            ELSE IF is_complete(rent_data) THEN Fail(Custom(RentAlreadyPaidInFull))
            ELSE IF is_terminated(rent_data) THEN Fail(Custom(RentAgreementTerminated))
            ELSE IF rent_data.rent_amount # rent_amount
                 THEN Fail(Custom(RentPaymentAmountMismatch))
            ELSE IF payer_account.key = payee_account.key THEN Fail(Ok)
            ELSE pay_rent_commit(payer_account, payee_account, rent_amount, transfer_ok)

\* a mutant: the payee of the call is not compared with the agreement's
pay_rent_any_payee(accounts, pid, rent_amount, transfer_ok) ==
    IF Len(accounts) < 1 THEN Fail(Err("NotEnoughAccountKeys"))
    ELSE IF owner(accounts[1].key) # pid THEN Fail(Err("IncorrectProgramId"))
    ELSE IF Len(accounts) < 4 THEN Fail(Err("NotEnoughAccountKeys"))
    ELSE LET payee_account == accounts[2]
             payer_account == accounts[3]
         IN IF ~payer_account.is_signer THEN Fail(Err("MissingRequiredSignature"))
            ELSE IF U64Lt(account_lamports(payer_account), rent_amount)
                 THEN Fail(Err("InsufficientFunds"))
            ELSE IF payer_account.key = payee_account.key THEN Fail(Ok)
            ELSE IF try_from_slice_is_err THEN Fail(Err("InvalidAccountData"))
            ELSE IF ~is_initialized(rent_data) THEN Fail(Err("UninitializedAccount"))
            ELSE IF is_complete(rent_data) THEN Fail(Custom(RentAlreadyPaidInFull))
            ELSE IF is_terminated(rent_data) THEN Fail(Custom(RentAgreementTerminated))
            ELSE IF rent_data.rent_amount # rent_amount
                 THEN Fail(Custom(RentPaymentAmountMismatch))
            ELSE pay_rent_commit(payer_account, payee_account, rent_amount, transfer_ok)

\* a mutant: the self-payment branch comes before the checks of the payer
pay_rent_self_payment_first(accounts, pid, rent_amount, transfer_ok) ==
    IF Len(accounts) < 1 THEN Fail(Err("NotEnoughAccountKeys"))
    ELSE IF owner(accounts[1].key) # pid THEN Fail(Err("IncorrectProgramId"))
    ELSE IF Len(accounts) < 4 THEN Fail(Err("NotEnoughAccountKeys"))
    ELSE LET payee_account == accounts[2]
             payer_account == accounts[3]
         IN IF payer_account.key = payee_account.key THEN Fail(Ok)
            ELSE IF ~payer_account.is_signer THEN Fail(Err("MissingRequiredSignature"))
            ELSE IF U64Lt(account_lamports(payer_account), rent_amount)
                 THEN Fail(Err("InsufficientFunds"))
            ELSE IF try_from_slice_is_err THEN Fail(Err("InvalidAccountData"))
            ELSE IF ~is_initialized(rent_data) THEN Fail(Err("UninitializedAccount"))
            ELSE IF rent_data.payee_pubkey # payee_account.key
                 THEN Fail(Err("InvalidAccountData"))
            ELSE IF is_complete(rent_data) THEN Fail(Custom(RentAlreadyPaidInFull))
            ELSE IF is_terminated(rent_data) THEN Fail(Custom(RentAgreementTerminated))
            ELSE IF rent_data.rent_amount # rent_amount
                 THEN Fail(Custom(RentPaymentAmountMismatch))
            ELSE pay_rent_commit(payer_account, payee_account, rent_amount, transfer_ok)

\* a mutant: only the payer of the agreement may pay
pay_rent_stored_payer_only(accounts, pid, rent_amount, transfer_ok) ==
    IF Len(accounts) < 1 THEN Fail(Err("NotEnoughAccountKeys"))
    ELSE IF owner(accounts[1].key) # pid THEN Fail(Err("IncorrectProgramId"))
    ELSE IF Len(accounts) < 4 THEN Fail(Err("NotEnoughAccountKeys"))
    ELSE LET payee_account == accounts[2]
             payer_account == accounts[3]
         IN IF ~payer_account.is_signer THEN Fail(Err("MissingRequiredSignature"))
            ELSE IF U64Lt(account_lamports(payer_account), rent_amount)
                 THEN Fail(Err("InsufficientFunds"))
            ELSE IF payer_account.key = payee_account.key THEN Fail(Ok)
            ELSE IF try_from_slice_is_err THEN Fail(Err("InvalidAccountData"))
            ELSE IF ~is_initialized(rent_data) THEN Fail(Err("UninitializedAccount"))
            ELSE IF rent_data.payee_pubkey # payee_account.key
                 THEN Fail(Err("InvalidAccountData"))
            ELSE IF rent_data.payer_pubkey # payer_account.key
                 THEN Fail(Err("InvalidAccountData"))
            ELSE IF is_complete(rent_data) THEN Fail(Custom(RentAlreadyPaidInFull))
            ELSE IF is_terminated(rent_data) THEN Fail(Custom(RentAgreementTerminated))
            ELSE IF rent_data.rent_amount # rent_amount
                 THEN Fail(Custom(RentPaymentAmountMismatch))
            ELSE pay_rent_commit(payer_account, payee_account, rent_amount, transfer_ok)

pay_rent(accounts, pid, rent_amount, transfer_ok) ==
    IF Len(accounts) < 1 THEN Fail(Err("NotEnoughAccountKeys"))
    ELSE IF owner(accounts[1].key) # pid THEN Fail(Err("IncorrectProgramId"))
    ELSE IF Len(accounts) < 4 THEN Fail(Err("NotEnoughAccountKeys"))
    ELSE LET payee_account == accounts[2]
             payer_account == accounts[3]
         IN IF ~payer_account.is_signer THEN Fail(Err("MissingRequiredSignature"))
            ELSE IF U64Lt(account_lamports(payer_account), rent_amount)
                 THEN Fail(Err("InsufficientFunds"))
            ELSE IF payer_account.key = payee_account.key THEN Fail(Ok)
            ELSE IF try_from_slice_is_err THEN Fail(Err("InvalidAccountData"))
            ELSE IF ~is_initialized(rent_data) THEN Fail(Err("UninitializedAccount"))
            ELSE IF rent_data.payee_pubkey # payee_account.key
                 THEN Fail(Err("InvalidAccountData"))
            ELSE IF is_complete(rent_data) THEN Fail(Custom(RentAlreadyPaidInFull))
            ELSE IF is_terminated(rent_data) THEN Fail(Custom(RentAgreementTerminated))
            ELSE IF rent_data.rent_amount # rent_amount
                 THEN Fail(Custom(RentPaymentAmountMismatch))
            ELSE pay_rent_commit(payer_account, payee_account, rent_amount, transfer_ok)

\* a mutant: terminate_early without the checks of a finished agreement
terminate_early_unchecked(accounts, pid) ==
    IF Len(accounts) < 1 THEN Fail(Err("NotEnoughAccountKeys"))
    ELSE IF owner(accounts[1].key) # pid THEN Fail(Err("IncorrectProgramId"))
    ELSE IF try_from_slice_is_err THEN Fail(Err("InvalidAccountData"))
    ELSE IF ~is_initialized(rent_data) THEN Fail(Err("UninitializedAccount"))
    ELSE Outcome(Ok,
                 [rent_data EXCEPT !.remaining_payments = U64(0),
                                   !.status = Terminated],
                 lamports)

\* a mutant: a party of the agreement has to sign the termination
terminate_early_signed(accounts, pid) ==
    IF Len(accounts) < 1 THEN Fail(Err("NotEnoughAccountKeys"))
    ELSE IF owner(accounts[1].key) # pid THEN Fail(Err("IncorrectProgramId"))
    ELSE IF try_from_slice_is_err THEN Fail(Err("InvalidAccountData"))
    ELSE IF ~is_initialized(rent_data) THEN Fail(Err("UninitializedAccount"))
    ELSE IF is_complete(rent_data) THEN Fail(Custom(RentAlreadyPaidInFull))
    ELSE IF is_terminated(rent_data) THEN Fail(Custom(RentAgreementTerminated))
    ELSE IF Len(accounts) < 2 THEN Fail(Err("NotEnoughAccountKeys"))
    ELSE IF ~accounts[2].is_signer THEN Fail(Err("MissingRequiredSignature"))
    ELSE IF accounts[2].key \notin {rent_data.payee_pubkey, rent_data.payer_pubkey}
         THEN Fail(Err("InvalidAccountData"))
    ELSE Outcome(Ok,
                 [rent_data EXCEPT !.remaining_payments = U64(0),
                                   !.status = Terminated],
                 lamports)

terminate_early(accounts, pid) ==
    IF Len(accounts) < 1 THEN Fail(Err("NotEnoughAccountKeys"))
    ELSE IF owner(accounts[1].key) # pid THEN Fail(Err("IncorrectProgramId"))
    ELSE IF try_from_slice_is_err THEN Fail(Err("InvalidAccountData"))
    ELSE IF ~is_initialized(rent_data) THEN Fail(Err("UninitializedAccount"))
    ELSE IF is_complete(rent_data) THEN Fail(Custom(RentAlreadyPaidInFull))
    ELSE IF is_terminated(rent_data) THEN Fail(Custom(RentAgreementTerminated))
    ELSE Outcome(Ok,
                 [rent_data EXCEPT !.remaining_payments = U64(0),
                                   !.status = Terminated],
                 lamports)

\* Processor::process: dispatch on the instruction
process(pid, accounts, instruction, transfer_ok) ==
    IF instruction.variant = "InitializeRentContract"
    THEN initialize_rent_contract(accounts, pid, instruction.payee_pubkey,
                                  instruction.payer_pubkey, instruction.deposit,
                                  instruction.rent_amount, instruction.duration,
                                  instruction.duration_unit)
    ELSE IF instruction.variant = "PayRent"
    THEN pay_rent(accounts, pid, instruction.rent_amount, transfer_ok)
    ELSE terminate_early(accounts, pid)

-----------------------------------------------------------------------------
(* The calls of the model *)

Pubkeys == Wallets

\* a deposit and a duration unit, both zero or both not
DepositsAndUnits == {<<U64(0), 0>>, <<U64(5), 1>>}

RentAmounts == {U64(1), U64(2)}

Durations == {U64(d) : d \in 0..MaxDuration}

InitializeInstructions ==
    {InitializeRentContract(payee, payer, du[1], rent_amount, duration, du[2]) :
        payee \in Pubkeys, payer \in Pubkeys, du \in DepositsAndUnits,
        rent_amount \in RentAmounts, duration \in Durations}

Agreement == AccountInfo(AgreementKey, FALSE)

SysvarRent == AccountInfo(SysvarRentKey, FALSE)

SystemProgram == AccountInfo(SystemProgramId, FALSE)

\* an account this program does not own, offered as the agreement account
Foreign == AccountInfo("w1", FALSE)

Prefixes(full) == {SubSeq(full, 1, n) : n \in 0..Len(full)}

\* account lists that stop an instruction before it reads the agreement
InitializeBadAccounts ==
    (Prefixes(<<Agreement, SysvarRent>>) \ {<<Agreement, SysvarRent>>})
    \cup {<<Foreign, SysvarRent>>, <<Agreement, Foreign>>}

PayRentBadAccounts ==
    {SubSeq(<<a, AccountInfo("w2", FALSE), AccountInfo("w3", TRUE), SystemProgram>>, 1, n) :
        a \in {Agreement, Foreign}, n \in 0..3}
    \cup {<<Foreign, AccountInfo("w2", FALSE), AccountInfo("w3", TRUE), SystemProgram>>}

PayRentAccounts ==
    {<<Agreement, AccountInfo(k1, s1), AccountInfo(k2, s2), SystemProgram>> :
        k1 \in Wallets, s1 \in BOOLEAN, k2 \in Wallets, s2 \in BOOLEAN}

TerminateEarlyAccounts ==
    {<<>>, <<Foreign>>, <<Agreement>>}
    \cup {<<Agreement, AccountInfo(k, s)>> : k \in Wallets, s \in BOOLEAN}

Call(instruction, accounts) == [instruction |-> instruction, accounts |-> accounts]

\* an Initialize instruction for the account lists that fail before its
\* arguments are read
SomeInitialize == InitializeRentContract("w1", "w2", U64(5), U64(2), U64(1), 1)

Calls ==
    {Call(i, <<Agreement, SysvarRent>>) : i \in InitializeInstructions}
    \cup {Call(SomeInitialize, a) : a \in InitializeBadAccounts}
    \cup {Call(PayRent(r), a) : r \in RentAmounts, a \in PayRentAccounts}
    \cup {Call(PayRent(U64(1)), a) : a \in PayRentBadAccounts}
    \cup {Call(TerminateEarly, a) : a \in TerminateEarlyAccounts}

NoCall == Call([variant |-> "none"], <<>>)

-----------------------------------------------------------------------------
(* History: the run of PayRent calls C1 is about *)

\* a PayRent call as a paying renter makes it: signed by the payer, to the
\* payee of the agreement, of the agreed amount, out of a sufficient balance,
\* and the transfer goes through
Qualifies(c, transfer_ok) ==
    /\ c.instruction.variant = "PayRent"
    /\ Len(c.accounts) = 4
    /\ c.accounts[1] = Agreement
    /\ c.accounts[3].is_signer
    /\ c.accounts[3].key # c.accounts[2].key
    /\ c.accounts[2].key = rent_data.payee_pubkey
    /\ c.instruction.rent_amount = rent_data.rent_amount
    /\ U64Le(c.instruction.rent_amount, account_lamports(c.accounts[3]))
    /\ transfer_ok

NextPaySeq(c, out, transfer_ok) ==
    IF c.instruction.variant = "InitializeRentContract"
    THEN IF out.result.ok THEN 0 ELSE -1
    ELSE IF /\ Qualifies(c, transfer_ok)
            /\ pay_seq >= 0
            /\ pay_seq < U64ToNat(rent_data.duration)
         THEN pay_seq + 1
         ELSE -1

-----------------------------------------------------------------------------
(* The state machine *)

Init ==
    /\ rent_data = ZeroedAccount
    /\ data_len \in {RentShareAccountLen, RentShareAccountLen - 1}
    /\ rent_exempt \in BOOLEAN
    /\ overflow_checks \in BOOLEAN
    /\ lamports = [w \in Wallets |-> InitLamports]
    /\ pc = "idle"
    /\ call = NoCall
    /\ result = NoResult
    /\ pay_seq = -1
    /\ was_active = FALSE
    /\ input = <<>>
    /\ unpacked = NotUnpacked

\* the host hands the program an instruction and its accounts
Invoke ==
    /\ pc = "idle"
    /\ \E c \in Calls : call' = c
    /\ pc' = "pending"
    /\ UNCHANGED <<rent_data, data_len, rent_exempt, overflow_checks, lamports,
                   result, pay_seq, was_active, input, unpacked>>

\* the program runs the handler of the pending instruction to its end; the
\* host says whether a transfer the handler invokes goes through
Handle(transfer_ok) ==
    LET out == process(program_id, call.accounts, call.instruction, transfer_ok)
    IN /\ rent_data' = out.rent_data
       /\ lamports' = out.lamports
       /\ result' = out.result
       /\ pay_seq' = NextPaySeq(call, out, transfer_ok)
       /\ was_active' = (was_active \/ rent_data.status = Active)

ProcessInitializeRentContract ==
    /\ pc = "pending"
    /\ call.instruction.variant = "InitializeRentContract"
    /\ Handle(TRUE)
    /\ pc' = "done"
    /\ UNCHANGED <<data_len, rent_exempt, overflow_checks, call, input, unpacked>>

ProcessPayRent ==
    /\ pc = "pending"
    /\ call.instruction.variant = "PayRent"
    /\ \E transfer_ok \in BOOLEAN : Handle(transfer_ok)
    /\ pc' = "done"
    /\ UNCHANGED <<data_len, rent_exempt, overflow_checks, call, input, unpacked>>

ProcessTerminateEarly ==
    /\ pc = "pending"
    /\ call.instruction.variant = "TerminateEarly"
    /\ Handle(TRUE)
    /\ pc' = "done"
    /\ UNCHANGED <<data_len, rent_exempt, overflow_checks, call, input, unpacked>>

\* the result goes back to the caller
Return ==
    /\ pc = "done"
    /\ pc' = "idle"
    /\ call' = NoCall
    /\ result' = NoResult
    /\ UNCHANGED <<rent_data, data_len, rent_exempt, overflow_checks, lamports,
                   pay_seq, was_active, input, unpacked>>

\* the instruction buffers of the model: the empty one, and a tag followed by
\* the first bytes of a stream
PayloadSeeds == {1, 200}

Payload(seed, n) == [i \in 1..n |-> (seed + 37 * i) % 256]

InstructionBuffers ==
    {<<>>} \cup {<<tag>> \o Payload(seed, n) :
                   tag \in 0..3, seed \in PayloadSeeds, n \in 0..MaxPayload}

\* decoding alone: a buffer comes in and unpack is applied to it
InitUnpack ==
    /\ rent_data = ZeroedAccount
    /\ data_len = RentShareAccountLen
    /\ rent_exempt = TRUE
    /\ overflow_checks = FALSE
    /\ lamports = [w \in Wallets |-> InitLamports]
    /\ pc = "idle"
    /\ call = NoCall
    /\ result = NoResult
    /\ pay_seq = -1
    /\ was_active = FALSE
    /\ input \in InstructionBuffers
    /\ unpacked = NotUnpacked

Unpack ==
    /\ unpacked = NotUnpacked
    /\ unpacked' = unpack(input)
    /\ UNCHANGED <<rent_data, data_len, rent_exempt, overflow_checks, lamports, pc,
                   call, result, pay_seq, was_active, input>>

NextUnpack == Unpack

SpecUnpack == InitUnpack /\ [][NextUnpack]_vars

Next ==
    \/ Invoke
    \/ ProcessInitializeRentContract
    \/ ProcessPayRent
    \/ ProcessTerminateEarly
    \/ Return

Spec == Init /\ [][Next]_vars

-----------------------------------------------------------------------------
(* The claims *)

\* a step in which the program processes the pending call
Processed == pc = "pending" /\ pc' = "done"

Variant == call.instruction.variant

\* C1: after the N-th PayRent of a run of qualifying PayRent calls that follows
\* a successful Initialize with nothing in between (1 <= N <= duration), the
\* call has succeeded, remaining_payments = duration - N, the status is Active
\* while N < duration, and Completed with remaining_payments = 0 at N = duration.
C1_PayRentSequence ==
    pay_seq >= 1 =>
        /\ pc = "done" => result = Ok
        /\ pay_seq <= U64ToNat(rent_data.duration)
        /\ rent_data.remaining_payments = U64(U64ToNat(rent_data.duration) - pay_seq)
        /\ pay_seq < U64ToNat(rent_data.duration) => rent_data.status = Active
        /\ pay_seq = U64ToNat(rent_data.duration) =>
              rent_data.status = Completed /\ rent_data.remaining_payments = U64(0)

\* C1's case: the last of two payments has just completed a two-period agreement
C1_Witness ==
    /\ pc = "done"
    /\ pay_seq = 2
    /\ rent_data.duration = U64(2)
    /\ rent_data.status = Completed

\* C2: the status only changes Uninitialized -> Active by Initialize,
\* Active -> Completed by PayRent and Active -> Terminated by TerminateEarly.
C2_StatusTransitions ==
    [][rent_data'.status # rent_data.status =>
        \/ /\ rent_data.status = Uninitialized
           /\ rent_data'.status = Active
           /\ Variant = "InitializeRentContract"
        \/ /\ rent_data.status = Active
           /\ rent_data'.status = Completed
           /\ Variant = "PayRent"
        \/ /\ rent_data.status = Active
           /\ rent_data'.status = Terminated
           /\ Variant = "TerminateEarly"]_vars

\* C2's case: an agreement has gone Uninitialized -> Active -> Completed and a
\* TerminateEarly on it has been refused
C2_Witness ==
    /\ pc = "done"
    /\ Variant = "TerminateEarly"
    /\ result = Custom(RentAlreadyPaidInFull)
    /\ rent_data.status = Completed

\* C3: once the status is Completed or Terminated no step changes any field of
\* the record.
C3_TerminalRecordFrozen ==
    [][rent_data.status \in {Completed, Terminated} => rent_data' = rent_data]_vars

\* C3's case: a signed PayRent to the payee of a Terminated agreement has been
\* processed
C3_Witness ==
    /\ pc = "done"
    /\ Variant = "PayRent"
    /\ rent_data.status = Terminated
    /\ result = Custom(RentAgreementTerminated)

\* C4: a call that does not succeed leaves the record and every balance as
\* they were, a failed transfer included.
C4_FailureChangesNothing ==
    [][(Processed /\ ~result'.ok) => (rent_data' = rent_data /\ lamports' = lamports)]_vars

\* C4's case: the transfer of a PayRent that passed every check has failed
C4_Witness ==
    /\ pc = "done"
    /\ Variant = "PayRent"
    /\ result = TransferError
    /\ rent_data.status = Active

\* C5: after a successful Initialize, remaining_payments <= duration in every
\* state, as unsigned 64-bit numbers.
C5_RemainingAtMostDuration ==
    is_initialized(rent_data) =>
        U64Le(rent_data.remaining_payments, rent_data.duration)

InitializeAccountsOk ==
    /\ Len(call.accounts) >= 2
    /\ owner(call.accounts[1].key) = program_id
    /\ call.accounts[2].key = SysvarRentKey

\* C7: Initialize on a program-owned, rent-exempt agreement account that holds
\* an Uninitialized record succeeds, leaves status = Active, remaining_payments
\* = duration and every other field equal to the instruction's, and moves no
\* lamports.
C7_InitializeSetsRecord ==
    [][(/\ Processed
        /\ Variant = "InitializeRentContract"
        /\ InitializeAccountsOk
        /\ rent_exempt
        /\ data_len = RentShareAccountLen
        /\ rent_data.status = Uninitialized) =>
            /\ result' = Ok
            /\ rent_data'.status = Active
            /\ rent_data'.remaining_payments = call.instruction.duration
            /\ rent_data'.payee_pubkey = call.instruction.payee_pubkey
            /\ rent_data'.payer_pubkey = call.instruction.payer_pubkey
            /\ rent_data'.deposit = call.instruction.deposit
            /\ rent_data'.rent_amount = call.instruction.rent_amount
            /\ rent_data'.duration = call.instruction.duration
            /\ rent_data'.duration_unit = call.instruction.duration_unit
            /\ lamports' = lamports]_vars

\* C7's case: an Initialize with a deposit, a unit and distinct identities has
\* succeeded
C7_Witness ==
    /\ pc = "done"
    /\ Variant = "InitializeRentContract"
    /\ result = Ok
    /\ call.instruction.deposit = U64(5)
    /\ call.instruction.duration = U64(2)
    /\ call.instruction.payee_pubkey # call.instruction.payer_pubkey
    /\ rent_data.status = Active

\* C8: Initialize on a record that is Active, Completed or Terminated fails
\* with AccountAlreadyInitialized and leaves the record as it was.
C8_NoReinitialize ==
    [][(/\ Processed
        /\ Variant = "InitializeRentContract"
        /\ rent_data.status # Uninitialized) =>
            /\ ~result'.ok
            /\ rent_data' = rent_data
            /\ (InitializeAccountsOk /\ rent_exempt) =>
                  result' = Err("AccountAlreadyInitialized")]_vars

\* C8's case: an Initialize with other terms was refused on a Completed record
C8_Witness ==
    /\ pc = "done"
    /\ Variant = "InitializeRentContract"
    /\ result = Err("AccountAlreadyInitialized")
    /\ rent_data.status = Completed
    /\ call.instruction.payee_pubkey # rent_data.payee_pubkey
    /\ call.instruction.rent_amount # rent_data.rent_amount

\* the pending PayRent gets as far as the checks of the status: the agreement
\* account is the program's, the payer has signed and can pay the amount, is
\* not the payee, and the payee is the agreement's
PayRentReachesStatusChecks ==
    /\ Len(call.accounts) >= 4
    /\ owner(call.accounts[1].key) = program_id
    /\ call.accounts[3].is_signer
    /\ U64Le(call.instruction.rent_amount, account_lamports(call.accounts[3]))
    /\ call.accounts[3].key # call.accounts[2].key
    /\ call.accounts[2].key = rent_data.payee_pubkey

\* C9: PayRent on a Completed agreement fails with RentAlreadyPaidInFull and
\* on a Terminated one with RentAgreementTerminated; nothing is transferred
\* and the record stays as it was.
C9_PayRentOnTerminal ==
    [][(/\ Processed
        /\ Variant = "PayRent"
        /\ rent_data.status \in {Completed, Terminated}) =>
            /\ rent_data' = rent_data
            /\ lamports' = lamports
            /\ PayRentReachesStatusChecks =>
                  result' = IF rent_data.status = Completed
                            THEN Custom(RentAlreadyPaidInFull)
                            ELSE Custom(RentAgreementTerminated)]_vars

\* C9's case: the payment after the last one has come back with
\* RentAlreadyPaidInFull
C9_Witness ==
    /\ pc = "done"
    /\ Variant = "PayRent"
    /\ rent_data.status = Completed
    /\ result = Custom(RentAlreadyPaidInFull)

\* C10: TerminateEarly on an Active agreement succeeds, sets status =
\* Terminated and remaining_payments = 0 and moves no lamports; from then on
\* the agreement stays Terminated, no lamports move, and every PayRent that
\* gets to the status checks fails with RentAgreementTerminated.
C10_TerminateEarlyEndsPayments ==
    /\ [][(/\ Processed
           /\ Variant = "TerminateEarly"
           /\ Len(call.accounts) >= 1
           /\ owner(call.accounts[1].key) = program_id
           /\ rent_data.status = Active) =>
               /\ result' = Ok
               /\ rent_data' = [rent_data EXCEPT !.status = Terminated,
                                                 !.remaining_payments = U64(0)]
               /\ lamports' = lamports]_vars
    /\ [][rent_data.status = Terminated =>
               /\ rent_data'.status = Terminated
               /\ lamports' = lamports
               /\ (Processed /\ Variant = "PayRent" /\ PayRentReachesStatusChecks) =>
                     result' = Custom(RentAgreementTerminated)]_vars

\* C10's case: an agreement with payments left was terminated, and a later
\* PayRent of the agreed amount has been refused
C10_Witness ==
    /\ pc = "done"
    /\ Variant = "PayRent"
    /\ call.instruction.rent_amount = rent_data.rent_amount
    /\ rent_data.status = Terminated
    /\ rent_data.duration = U64(2)
    /\ result = Custom(RentAgreementTerminated)

\* the pending TerminateEarly gets as far as the checks of the status: the
\* agreement account is the program's and holds a record
TerminateEarlyReachesStatusChecks ==
    /\ Len(call.accounts) >= 1
    /\ owner(call.accounts[1].key) = program_id
    /\ data_len = RentShareAccountLen

\* C11: TerminateEarly fails with UninitializedAccount on an Uninitialized
\* record, RentAlreadyPaidInFull on a Completed one and RentAgreementTerminated
\* on a Terminated one, the codes PayRent gives, and leaves the record as it was.
C11_TerminateEarlyChecks ==
    [][(/\ Processed
        /\ Variant = "TerminateEarly"
        /\ rent_data.status # Active) =>
            /\ rent_data' = rent_data
            /\ TerminateEarlyReachesStatusChecks =>
                  result' = IF rent_data.status = Uninitialized
                            THEN Err("UninitializedAccount")
                            ELSE IF rent_data.status = Completed
                            THEN Custom(RentAlreadyPaidInFull)
                            ELSE Custom(RentAgreementTerminated)]_vars

\* C11's case: a second TerminateEarly has been refused
C11_Witness ==
    /\ pc = "done"
    /\ Variant = "TerminateEarly"
    /\ rent_data.status = Terminated
    /\ result = Custom(RentAgreementTerminated)

\* the pending PayRent names one identity as payer and as payee, on an
\* agreement account of this program, and that identity has signed
SignedSelfPayment ==
    /\ Len(call.accounts) >= 4
    /\ owner(call.accounts[1].key) = program_id
    /\ call.accounts[3].is_signer
    /\ call.accounts[3].key = call.accounts[2].key

\* C12 as stated: a PayRent whose payer is its payee succeeds and changes
\* neither a balance nor the record, whatever the status and the amount.
C12_SelfPaymentAnyAmount ==
    [][(Processed /\ Variant = "PayRent" /\ SignedSelfPayment) =>
            (result' = Ok /\ rent_data' = rent_data /\ lamports' = lamports)]_vars

\* C12, amended: a PayRent whose payer is its payee, signed by that identity
\* and of an amount its balance covers, succeeds and changes neither a balance
\* nor the record, whatever the status; no self-payment changes anything.
C12_SelfPaymentWithinBalance ==
    [][(Processed /\ Variant = "PayRent" /\ SignedSelfPayment) =>
            /\ rent_data' = rent_data
            /\ lamports' = lamports
            /\ result' = IF U64Le(call.instruction.rent_amount,
                                  account_lamports(call.accounts[3]))
                         THEN Ok
                         ELSE Err("InsufficientFunds")]_vars

\* C12's case: the payee of a Completed agreement has paid itself
C12_Witness ==
    /\ pc = "done"
    /\ Variant = "PayRent"
    /\ SignedSelfPayment
    /\ call.accounts[3].key = rent_data.payee_pubkey
    /\ rent_data.status = Completed
    /\ result = Ok

\* the pending PayRent gets as far as the comparison of the payee: the
\* agreement account is the program's and holds an initialized record, the
\* payer has signed and can pay the amount, and is not the payee
PayRentReachesPayeeCheck ==
    /\ Len(call.accounts) >= 4
    /\ owner(call.accounts[1].key) = program_id
    /\ call.accounts[3].is_signer
    /\ U64Le(call.instruction.rent_amount, account_lamports(call.accounts[3]))
    /\ call.accounts[3].key # call.accounts[2].key
    /\ data_len = RentShareAccountLen
    /\ is_initialized(rent_data)

\* the step moves the agreement's rent_amount from one wallet to the
\* agreement's payee and nothing else
MovesRentToPayee ==
    \E from \in Wallets \ {rent_data.payee_pubkey} :
        /\ rent_data.payee_pubkey \in Wallets
        /\ lamports'[from] = lamports[from] - U64ToNat(rent_data.rent_amount)
        /\ lamports'[rent_data.payee_pubkey] =
              lamports[rent_data.payee_pubkey] + U64ToNat(rent_data.rent_amount)
        /\ \A w \in Wallets \ {from, rent_data.payee_pubkey} : lamports'[w] = lamports[w]

\* C13: every transfer moves exactly the stored rent_amount to the stored
\* payee; a PayRent to another payee fails with InvalidAccountData and one of
\* another amount with RentPaymentAmountMismatch, with no transfer and the
\* record as it was.
C13_TransfersOnlyRentToPayee ==
    /\ [][lamports' # lamports =>
            (Processed /\ Variant = "PayRent" /\ MovesRentToPayee)]_vars
    /\ [][(/\ Processed
           /\ Variant = "PayRent"
           /\ PayRentReachesPayeeCheck
           /\ call.accounts[2].key # rent_data.payee_pubkey) =>
               /\ result' = Err("InvalidAccountData")
               /\ rent_data' = rent_data
               /\ lamports' = lamports]_vars
    /\ [][(/\ Processed
           /\ Variant = "PayRent"
           /\ PayRentReachesStatusChecks
           /\ rent_data.status = Active
           /\ call.instruction.rent_amount # rent_data.rent_amount) =>
               /\ result' = Custom(RentPaymentAmountMismatch)
               /\ rent_data' = rent_data
               /\ lamports' = lamports]_vars

\* C13's case: a payer with two lamports has offered one lamport for a rent
\* of two
C13_Witness ==
    /\ pc = "done"
    /\ Variant = "PayRent"
    /\ rent_data.status = Active
    /\ rent_data.rent_amount = U64(2)
    /\ call.instruction.rent_amount = U64(1)
    /\ result = Custom(RentPaymentAmountMismatch)

\* the fields of the record that hold the terms of the agreement
Terms(rd) ==
    <<rd.payee_pubkey, rd.payer_pubkey, rd.deposit, rd.rent_amount, rd.duration,
      rd.duration_unit>>

\* C14: once the record is initialized its payee and payer never change, and
\* PayRent and TerminateEarly leave the payee, the payer, the deposit, the rent
\* amount, the duration and its unit as they were: they change only status
\* and remaining_payments.
C14_TermsImmutable ==
    /\ [][is_initialized(rent_data) => Terms(rent_data') = Terms(rent_data)]_vars
    /\ [][(Processed /\ Variant \in {"PayRent", "TerminateEarly"}) =>
            Terms(rent_data') = Terms(rent_data)]_vars

\* C14's case: a payment has been made on an agreement with a deposit and
\* payments left
C14_Witness ==
    /\ pc = "done"
    /\ Variant = "PayRent"
    /\ result = Ok
    /\ rent_data.status = Active
    /\ rent_data.deposit = U64(5)
    /\ rent_data.duration = U64(2)
    /\ rent_data.remaining_payments = U64(1)

\* the buffer is cut short: it is empty, or its tag is 0 and fewer than 89
\* bytes follow, or its tag is 1 and fewer than 8 bytes follow
Truncated(bytes) ==
    \/ Len(bytes) = 0
    \/ Head(bytes) = 0 /\ Len(bytes) - 1 < 89
    \/ Head(bytes) = 1 /\ Len(bytes) - 1 < 8

\* C15: unpack returns InvalidInstructionData for every truncated buffer, and
\* never aborts instead.
C15_TruncatedIsInvalidInstructionData ==
    (unpacked # NotUnpacked /\ Truncated(input)) => unpacked = InvalidInstructionData

\* no account of the pending call is a party of the agreement that has signed
NoPartySigned ==
    \A i \in 1..Len(call.accounts) :
        ~(/\ call.accounts[i].is_signer
          /\ call.accounts[i].key \in {rent_data.payee_pubkey, rent_data.payer_pubkey})

\* C16: TerminateEarly checks no signer and no identity: on an Active agreement
\* of this program it succeeds and leaves the agreement Terminated when
\* neither the payer nor the payee has signed, or is in the call at all.
C16_TerminateEarlyNeedsNoSigner ==
    [][(/\ Processed
        /\ Variant = "TerminateEarly"
        /\ Len(call.accounts) >= 1
        /\ owner(call.accounts[1].key) = program_id
        /\ rent_data.status = Active
        /\ NoPartySigned) =>
            (result' = Ok /\ rent_data'.status = Terminated)]_vars

\* C16's case: a call with the agreement account alone has terminated an
\* agreement that had payments left
C16_Witness ==
    /\ pc = "done"
    /\ Variant = "TerminateEarly"
    /\ call.accounts = <<Agreement>>
    /\ result = Ok
    /\ rent_data.status = Terminated
    /\ rent_data.duration = U64(2)

\* the pending PayRent has its accounts in the order of the documentation of
\* the instruction: the agreement, the payer, who has signed and can pay, the
\* payee of the agreement, the system program
DocumentedOrder ==
    /\ Len(call.accounts) = 4
    /\ owner(call.accounts[1].key) = program_id
    /\ call.accounts[2].is_signer
    /\ call.accounts[2].key # call.accounts[3].key
    /\ U64Le(call.instruction.rent_amount, account_lamports(call.accounts[2]))
    /\ call.accounts[3].key = rent_data.payee_pubkey
    /\ call.accounts[4] = SystemProgram

\* C17: a PayRent with its accounts in the documented order (agreement, signed
\* payer, payee, system program), of the agreed amount, on an Active agreement
\* with payments left, succeeds and moves rent_amount from the payer to the
\* payee, unless the transfer itself fails.
C17_DocumentedAccountOrder ==
    [][(/\ Processed
        /\ Variant = "PayRent"
        /\ DocumentedOrder
        /\ data_len = RentShareAccountLen
        /\ rent_data.status = Active
        /\ rent_data.remaining_payments # U64(0)
        /\ call.instruction.rent_amount = rent_data.rent_amount) =>
            /\ result' \in {Ok, TransferError}
            /\ result' = Ok =>
                  lamports' = transfer(call.accounts[2].key, call.accounts[3].key,
                                       rent_data.rent_amount)]_vars

\* the outcome of the first check of PayRent that fires on the pending call
\* with four accounts, in the order of the claim; NoResult if none does
PayRentFirstCheck ==
    IF owner(call.accounts[1].key) # program_id THEN Err("IncorrectProgramId")
    ELSE IF ~call.accounts[3].is_signer THEN Err("MissingRequiredSignature")
    ELSE IF U64Lt(account_lamports(call.accounts[3]), call.instruction.rent_amount)
         THEN Err("InsufficientFunds")
    ELSE IF call.accounts[3].key = call.accounts[2].key THEN Ok
    ELSE IF data_len # RentShareAccountLen THEN Err("InvalidAccountData")
    ELSE IF rent_data.status = Uninitialized THEN Err("UninitializedAccount")
    ELSE IF call.accounts[2].key # rent_data.payee_pubkey THEN Err("InvalidAccountData")
    ELSE IF rent_data.status = Completed THEN Custom(RentAlreadyPaidInFull)
    ELSE IF rent_data.status = Terminated THEN Custom(RentAgreementTerminated)
    ELSE IF call.instruction.rent_amount # rent_data.rent_amount
         THEN Custom(RentPaymentAmountMismatch)
    ELSE NoResult

\* C18: PayRent returns the outcome of the first check that fires, in the
\* order ownership, signature, balance, self-payment, decoding, initialized,
\* payee, Completed, Terminated, amount, and changes nothing when one fires;
\* a transfer is attempted only when none does.
C18_PayRentCheckOrder ==
    /\ [][(/\ Processed
           /\ Variant = "PayRent"
           /\ Len(call.accounts) >= 1
           /\ owner(call.accounts[1].key) # program_id) =>
               result' = Err("IncorrectProgramId")]_vars
    /\ [][(Processed /\ Variant = "PayRent" /\ Len(call.accounts) >= 4) =>
            IF PayRentFirstCheck # NoResult
            THEN /\ result' = PayRentFirstCheck
                 /\ rent_data' = rent_data
                 /\ lamports' = lamports
            ELSE result' \in {Ok, TransferError, Panicked}]_vars

\* C18's case: the payee of a Completed agreement pays itself more than it
\* has, and the balance check answers before the self-payment branch
C18_Witness ==
    /\ pc = "done"
    /\ Variant = "PayRent"
    /\ Len(call.accounts) >= 4
    /\ call.accounts[3].key = call.accounts[2].key
    /\ rent_data.status = Completed
    /\ result = Err("InsufficientFunds")

\* C19: the payee of an agreement never receives more than rent_amount *
\* duration, an agreement of duration 0 included.
C19_NoOverpayment ==
    (is_initialized(rent_data) /\ rent_data.payee_pubkey \in Wallets) =>
        lamports[rent_data.payee_pubkey] - InitLamports <=
            U64ToNat(rent_data.rent_amount) * U64ToNat(rent_data.duration)

\* the accounts of the pending PayRent, with the payer of the agreement as the
\* signed payer
StoredPayerAccounts ==
    <<call.accounts[1], call.accounts[2], AccountInfo(rent_data.payer_pubkey, TRUE),
      call.accounts[4]>>

\* the payer of the agreement could make the pending payment itself
StoredPayerCanPay ==
    /\ rent_data.payer_pubkey \in Wallets
    /\ rent_data.payer_pubkey # rent_data.payee_pubkey
    /\ U64Le(call.instruction.rent_amount, U64(lamports[rent_data.payer_pubkey]))

\* C20: PayRent does not compare the payer with the payer of the agreement: a
\* signed payment of the agreed amount to the payee, by an identity that is
\* neither the payee nor the stored payer and has the balance, succeeds on an
\* Active agreement with payments left unless the transfer fails; it is paid
\* from that identity, counts the payment down, and has the result and the
\* record a payment by the stored payer would have.
C20_PayerNotBound ==
    [][(/\ Processed
        /\ Variant = "PayRent"
        /\ PayRentReachesStatusChecks
        /\ data_len = RentShareAccountLen
        /\ rent_data.status = Active
        /\ call.instruction.rent_amount = rent_data.rent_amount
        /\ call.accounts[3].key # rent_data.payer_pubkey) =>
            /\ rent_data.remaining_payments # U64(0) => result' \in {Ok, TransferError}
            /\ result' = Ok =>
                  /\ rent_data'.remaining_payments =
                        wrapping_sub_one(rent_data.remaining_payments)
                  /\ lamports' = transfer(call.accounts[3].key, rent_data.payee_pubkey,
                                          rent_data.rent_amount)
            /\ StoredPayerCanPay =>
                  \E transfer_ok \in BOOLEAN :
                      LET stored == pay_rent(StoredPayerAccounts, program_id,
                                             call.instruction.rent_amount, transfer_ok)
                      IN result' = stored.result /\ rent_data' = stored.rent_data]_vars

\* C20's case: an identity that is not the payer of the agreement has paid
\* the first of two rents
C20_Witness ==
    /\ pc = "done"
    /\ Variant = "PayRent"
    /\ result = Ok
    /\ Len(call.accounts) >= 4
    /\ call.accounts[3].key \notin {rent_data.payer_pubkey, rent_data.payee_pubkey}
    /\ lamports[call.accounts[3].key] < InitLamports
    /\ lamports[rent_data.payer_pubkey] = InitLamports
    /\ rent_data.duration = U64(2)
    /\ rent_data.remaining_payments = U64(1)

====
